---- MODULE Spec2Model ----
(***************************************************************************)
(* A model of ConsoleEngine (src/engine.py): the Cell / EngineObject /     *)
(* Display grid operations and the Engine frame loop.                      *)
(*                                                                         *)
(* Python values are represented as follows.                               *)
(*   - str            : a TLA+ string                                       *)
(*   - Optional[T]    : None is <<>>, a present value v is <<v>>            *)
(*   - a Cell object  : a record [x, y, symbol, is_active]                  *)
(*   - a reference to a Cell of the grid : the pair <<row, col>> that       *)
(*     locates it in Display.display (display[row][col])                    *)
(*   - a tuple (a, b, c) of the object form : <<a, b, c>> (1-indexed)       *)
(***************************************************************************)
EXTENDS Integers, Sequences, FiniteSets, TLC

EMPTY_CELL_SYMBOL == " "

CELL_DEFAULT_SYMBOL == "#"

(* The string that render prints first: the three characters ESC [ H      *)
(* (the source spells ESC, U+001B, as the octal escape \033).               *)
CURSOR_HOME == "[H"

None == <<>>

Some(v) == <<v>>

(* Bounds of the model. *)
size_x == 2

size_y == 2

MaxOps == 2

MaxTime == 6

MaxFrames == 3

MaxObjOps == 3

(* Inputs of the calls: coordinates around and inside the grid, symbols. *)
XS == (0 - 1) .. size_x

YS == (0 - 1) .. size_y

Symbols == {None, Some(" "), Some("A")}

(* Object forms handed to EngineObject(object_form). *)
FormPartial == << <<0, 0, Some("A")>>, <<1000, 1000, Some("B")>> >>

FormOverlap == << <<0, 0, Some("A")>>, <<1, 0, None>>, <<0, 0, Some(" ")>> >>

FormBent == << <<0, 0, None>>, <<0 - 1, 1, Some("A")>>, <<0, 1, Some("A")>>, <<0, 1, None>> >>

Forms == {FormPartial, FormOverlap, FormBent}

(* Arguments of Engine.run(fps): seconds per frame, in clock ticks. *)
FpsArgs == {None, Some(0), Some(2), Some(3)}

VARIABLES
    display,       \* Display.display: the grid, display[row][col]
    objs,          \* the EngineObjects of the client, by name
    last,          \* the most recent call on the Display
    written,       \* what the most recent call wrote to stdout
    nops,          \* number of calls made on the Display
    pc,            \* position of the thread inside Engine.run
    fps,           \* the argument of Engine.run
    now,           \* the clock read by time.time()
    last_time,     \* local of _run_with_fps_limit
    current_time,  \* local of _run_with_fps_limit
    wake,          \* earliest time at which the pending time.sleep returns
    calls,         \* how many update() / render() calls have started and returned
    frame_start    \* the clock at the most recent call of update()

dvars == <<display, objs, last, nops>>

evars == <<pc, fps, now, last_time, current_time, wake, calls, frame_start>>

vars == <<display, objs, last, written, nops, pc, fps, now, last_time, current_time, wake, calls,
          frame_start>>

(***************************************************************************)
(* Cell                                                                    *)
(***************************************************************************)
Cell(x, y, symbol) == [x |-> x, y |-> y, symbol |-> symbol, is_active |-> FALSE]

(* A variant of Cell.activate that flips the active flag. *)
activate_toggles(cell, symbol) ==
    LET s == IF symbol = None THEN CELL_DEFAULT_SYMBOL ELSE symbol[1]
    IN  [cell EXCEPT !.symbol = s, !.is_active = ~cell.is_active]

activate(cell, symbol) ==
    LET s == IF symbol = None THEN CELL_DEFAULT_SYMBOL ELSE symbol[1]
    IN  [cell EXCEPT !.symbol = s, !.is_active = TRUE]

(* A variant of Cell.deactivate that keeps the symbol. *)
deactivate_keeps_symbol(cell) == [cell EXCEPT !.is_active = FALSE]

deactivate(cell) == [cell EXCEPT !.symbol = EMPTY_CELL_SYMBOL, !.is_active = FALSE]

(***************************************************************************)
(* EngineObject                                                            *)
(***************************************************************************)
EngineObject(object_form) == [object_form |-> object_form, object_coordinates |-> None]

init_object_coordinates(obj, object_coordinates) ==
    [obj EXCEPT !.object_coordinates = Some(object_coordinates)]

del_object_coordinates(obj) == [obj EXCEPT !.object_coordinates = None]

(***************************************************************************)
(* Display                                                                 *)
(***************************************************************************)
(* The position a list subscript a[i] selects in a list of length n: a     *)
(* negative subscript counts from the end.                                  *)
py_index(i, n) == IF i < 0 THEN i + n ELSE i

(* The reference to the Cell object self.display[row][col]. *)
CellRef(row, col) == <<py_index(row, size_y), py_index(col, size_x)>>

display_init ==
    [row \in 0 .. (size_y - 1) |-> [col \in 0 .. (size_x - 1) |-> Cell(col, row, EMPTY_CELL_SYMBOL)]]

(* A variant of _check_coordinates without the lower bounds. *)
check_coordinates_no_lower(x, y) == x < size_x /\ y < size_y

check_coordinates(x, y) == 0 <= x /\ x < size_x /\ 0 <= y /\ y < size_y

(* A variant of activate_cell that leaves an already active cell alone. *)
activate_cell_once(d, x, y, symbol) ==
    LET s == IF symbol = None THEN Some(CELL_DEFAULT_SYMBOL) ELSE symbol
    IN  IF check_coordinates(x, y) /\ ~d[py_index(y, size_y)][py_index(x, size_x)].is_active
        THEN [d EXCEPT ![py_index(y, size_y)][py_index(x, size_x)] = activate(@, s)]
        ELSE d

activate_cell(d, x, y, symbol) ==
    LET s == IF symbol = None THEN Some(CELL_DEFAULT_SYMBOL) ELSE symbol
    IN  IF check_coordinates(x, y)
        THEN [d EXCEPT ![py_index(y, size_y)][py_index(x, size_x)] = activate(@, s)]
        ELSE d

deactivate_cell(d, x, y) ==
    IF check_coordinates(x, y)
    THEN [d EXCEPT ![py_index(y, size_y)][py_index(x, size_x)] = deactivate(@)]
    ELSE d

check_cell_condition(d, x, y) ==
    IF check_coordinates(x, y)
    THEN d[py_index(y, size_y)][py_index(x, size_x)].is_active
    ELSE FALSE

(* A variant of the loop of draw_object that records each cell at the     *)
(* front of the list.                                                       *)
RECURSIVE draw_loop_prepend(_, _, _, _, _, _)
draw_loop_prepend(d, object_form, i, start_x, start_y, object_coordinates) ==
    IF i > Len(object_form)
    THEN [display |-> d, object_coordinates |-> object_coordinates]
    ELSE LET coordinate == object_form[i]
             new_x == start_x + coordinate[1]
             new_y == start_y + coordinate[2]
         IN  IF check_coordinates(new_x, new_y)
             THEN draw_loop_prepend(activate_cell(d, new_x, new_y, coordinate[3]), object_form,
                                    i + 1, start_x, start_y,
                                    <<CellRef(new_y, new_x)>> \o object_coordinates)
             ELSE draw_loop_prepend(d, object_form, i + 1, start_x, start_y, object_coordinates)

(* The body of the for loop of draw_object, from form entry i on: the grid  *)
(* and the local list object_coordinates after the remaining iterations.    *)
RECURSIVE draw_loop(_, _, _, _, _, _)
draw_loop(d, object_form, i, start_x, start_y, object_coordinates) ==
    IF i > Len(object_form)
    THEN [display |-> d, object_coordinates |-> object_coordinates]
    ELSE LET coordinate == object_form[i]
             new_x == start_x + coordinate[1]
             new_y == start_y + coordinate[2]
         IN  IF check_coordinates(new_x, new_y)
             THEN draw_loop(activate_cell(d, new_x, new_y, coordinate[3]), object_form, i + 1,
                            start_x, start_y,
                            Append(object_coordinates, CellRef(new_y, new_x)))
             ELSE draw_loop(d, object_form, i + 1, start_x, start_y, object_coordinates)

(* draw_object: the grid and the object after the call. *)
draw_object(d, engine_object, start_x, start_y) ==
    LET r == draw_loop(d, engine_object.object_form, 1, start_x, start_y, <<>>)
    IN  [display |-> r.display,
         engine_object |-> init_object_coordinates(engine_object, r.object_coordinates),
         err |-> "none"]

(* A variant of the loop of del_object that stops one element early. *)
RECURSIVE del_loop_stops_early(_, _, _)
del_loop_stops_early(d, object_coordinates, i) ==
    IF i >= Len(object_coordinates)
    THEN d
    ELSE LET coordinate == d[object_coordinates[i][1]][object_coordinates[i][2]]
         IN  del_loop_stops_early(deactivate_cell(d, coordinate.x, coordinate.y),
                                  object_coordinates, i + 1)

(* The for loop of del_object over the recorded Cell references, from i on. *)
RECURSIVE del_loop(_, _, _)
del_loop(d, object_coordinates, i) ==
    IF i > Len(object_coordinates)
    THEN d
    ELSE LET coordinate == d[object_coordinates[i][1]][object_coordinates[i][2]]
         IN  del_loop(deactivate_cell(d, coordinate.x, coordinate.y), object_coordinates, i + 1)

(* A variant of del_object that treats a missing list as an empty one. *)
del_object_none_as_empty(d, engine_object) ==
    IF engine_object.object_coordinates = None
    THEN [display |-> d, engine_object |-> engine_object, err |-> "none"]
    ELSE [display |-> del_loop(d, engine_object.object_coordinates[1], 1),
          engine_object |-> del_object_coordinates(engine_object),
          err |-> "none"]

(* del_object: iterating object_coordinates = None raises TypeError before *)
(* anything is changed.                                                     *)
del_object(d, engine_object) ==
    IF engine_object.object_coordinates = None
    THEN [display |-> d, engine_object |-> engine_object, err |-> "TypeError"]
    ELSE [display |-> del_loop(d, engine_object.object_coordinates[1], 1),
          engine_object |-> del_object_coordinates(engine_object),
          err |-> "none"]

(* A variant of move_object that draws before it deletes the old cells. *)
move_object_draws_first(d, engine_object, move_to_x, move_to_y) ==
    IF engine_object.object_coordinates = None
    THEN del_object(d, engine_object)
    ELSE LET r == draw_object(d, engine_object, move_to_x, move_to_y)
         IN  [display |-> del_loop(r.display, engine_object.object_coordinates[1], 1),
              engine_object |-> r.engine_object,
              err |-> "none"]

move_object(d, engine_object, move_to_x, move_to_y) ==
    LET r == del_object(d, engine_object)
    IN  IF r.err # "none"
        THEN r
        ELSE draw_object(r.display, r.engine_object, move_to_x, move_to_y)

(* "".join(cell.symbol for cell in row), from column i on. *)
RECURSIVE join_row(_, _)
join_row(row, i) ==
    IF i > size_x - 1 THEN "" ELSE row[i].symbol \o join_row(row, i + 1)

(* The string built by the for loop of render, from row i on. *)
RECURSIVE render_rows(_, _)
render_rows(d, i) ==
    IF i > size_y - 1 THEN "" ELSE (join_row(d[i], 0) \o "\n") \o render_rows(d, i + 1)

(* render: the text sent to stdout, one string per print call.              *)
(* print(s, end="") sends s; print(s) sends s followed by a line break.     *)
render(d) == << CURSOR_HOME, render_rows(d, 0) \o "\n" >>

(***************************************************************************)
(* The calls a client makes on a Display.  last records the most recent    *)
(* call, its arguments, whether it raised, and what it returned; written    *)
(* holds what that call wrote to stdout.                                    *)
(***************************************************************************)
NoCalls == [update_started |-> 0, update_returned |-> 0,
            render_started |-> 0, render_returned |-> 0]

NoCall == [op |-> "init", obj |-> "", x |-> 0, y |-> 0, symbol |-> None,
           err |-> "none", ret |-> FALSE]

Init ==
    /\ display = display_init
    /\ objs \in [{"o1"} -> {EngineObject(f) : f \in Forms}]
    /\ last = NoCall
    /\ written = <<>>
    /\ nops = 0
    /\ pc = "idle"
    /\ fps = None
    /\ now = 0
    /\ last_time = 0
    /\ current_time = 0
    /\ wake = 0
    /\ calls = NoCalls
    /\ frame_start = 0

CallActivateCell ==
    \E x \in XS, y \in YS, s \in Symbols :
        /\ nops < MaxOps
        /\ display' = activate_cell(display, x, y, s)
        /\ last' = [NoCall EXCEPT !.op = "activate_cell", !.x = x, !.y = y, !.symbol = s]
        /\ written' = <<>>
        /\ nops' = nops + 1
        /\ UNCHANGED evars
        /\ UNCHANGED objs

CallDeactivateCell ==
    \E x \in XS, y \in YS :
        /\ nops < MaxOps
        /\ display' = deactivate_cell(display, x, y)
        /\ last' = [NoCall EXCEPT !.op = "deactivate_cell", !.x = x, !.y = y]
        /\ written' = <<>>
        /\ nops' = nops + 1
        /\ UNCHANGED evars
        /\ UNCHANGED objs

CallCheckCellCondition ==
    \E x \in XS, y \in YS :
        /\ nops < MaxOps
        /\ last' = [NoCall EXCEPT !.op = "check_cell_condition", !.x = x, !.y = y,
                                  !.ret = check_cell_condition(display, x, y)]
        /\ written' = <<>>
        /\ nops' = nops + 1
        /\ UNCHANGED evars
        /\ UNCHANGED <<display, objs>>

CallDrawObject ==
    \E o \in DOMAIN objs, x \in XS, y \in YS :
        LET r == draw_object(display, objs[o], x, y)
        IN  /\ nops < MaxOps
            /\ display' = r.display
            /\ objs' = [objs EXCEPT ![o] = r.engine_object]
            /\ last' = [NoCall EXCEPT !.op = "draw_object", !.obj = o, !.x = x, !.y = y,
                                      !.err = r.err]
            /\ written' = <<>>
            /\ nops' = nops + 1
            /\ UNCHANGED evars

CallDelObject ==
    \E o \in DOMAIN objs :
        LET r == del_object(display, objs[o])
        IN  /\ nops < MaxOps
            /\ display' = r.display
            /\ objs' = [objs EXCEPT ![o] = r.engine_object]
            /\ last' = [NoCall EXCEPT !.op = "del_object", !.obj = o, !.err = r.err]
            /\ written' = <<>>
            /\ nops' = nops + 1
            /\ UNCHANGED evars

CallMoveObject ==
    \E o \in DOMAIN objs, x \in XS, y \in YS :
        LET r == move_object(display, objs[o], x, y)
        IN  /\ nops < MaxOps
            /\ display' = r.display
            /\ objs' = [objs EXCEPT ![o] = r.engine_object]
            /\ last' = [NoCall EXCEPT !.op = "move_object", !.obj = o, !.x = x, !.y = y,
                                      !.err = r.err]
            /\ written' = <<>>
            /\ nops' = nops + 1
            /\ UNCHANGED evars

CallRender ==
    /\ nops < MaxOps
    /\ written' = render(display)
    /\ last' = [NoCall EXCEPT !.op = "render"]
    /\ nops' = nops + 1
    /\ UNCHANGED evars
    /\ UNCHANGED <<display, objs>>

Next ==
    \/ CallActivateCell
    \/ CallDeactivateCell
    \/ CallCheckCellCondition
    \/ CallDrawObject
    \/ CallDelObject
    \/ CallMoveObject
    \/ CallRender

Spec == Init /\ [][Next]_vars

(***************************************************************************)
(* A client that only places, removes and moves its objects, one or two of *)
(* them, and removes or moves an object only while it is placed.            *)
(***************************************************************************)
ObjInit ==
    /\ display = display_init
    /\ objs \in [{"o1"} -> {EngineObject(f) : f \in Forms}]
               \cup [{"o1", "o2"} -> {EngineObject(f) : f \in Forms}]
    /\ last = NoCall
    /\ written = <<>>
    /\ nops = 0
    /\ pc = "idle"
    /\ fps = None
    /\ now = 0
    /\ last_time = 0
    /\ current_time = 0
    /\ wake = 0
    /\ calls = NoCalls
    /\ frame_start = 0

ObjDraw ==
    \E o \in DOMAIN objs, x \in XS, y \in YS :
        LET r == draw_object(display, objs[o], x, y)
        IN  /\ nops < MaxObjOps
            /\ display' = r.display
            /\ objs' = [objs EXCEPT ![o] = r.engine_object]
            /\ last' = [NoCall EXCEPT !.op = "draw_object", !.obj = o, !.x = x, !.y = y,
                                      !.err = r.err]
            /\ written' = <<>>
            /\ nops' = nops + 1
            /\ UNCHANGED evars

ObjDel ==
    \E o \in DOMAIN objs :
        LET r == del_object(display, objs[o])
        IN  /\ nops < MaxObjOps
            /\ objs[o].object_coordinates # None
            /\ display' = r.display
            /\ objs' = [objs EXCEPT ![o] = r.engine_object]
            /\ last' = [NoCall EXCEPT !.op = "del_object", !.obj = o, !.err = r.err]
            /\ written' = <<>>
            /\ nops' = nops + 1
            /\ UNCHANGED evars

ObjMove ==
    \E o \in DOMAIN objs, x \in XS, y \in YS :
        LET r == move_object(display, objs[o], x, y)
        IN  /\ nops < MaxObjOps
            /\ objs[o].object_coordinates # None
            /\ display' = r.display
            /\ objs' = [objs EXCEPT ![o] = r.engine_object]
            /\ last' = [NoCall EXCEPT !.op = "move_object", !.obj = o, !.x = x, !.y = y,
                                      !.err = r.err]
            /\ written' = <<>>
            /\ nops' = nops + 1
            /\ UNCHANGED evars

ObjNext ==
    \/ ObjDraw
    \/ ObjDel
    \/ ObjMove

ObjSpec == ObjInit /\ [][ObjNext]_vars

(***************************************************************************)
(* Engine.  update() is the abstract hook a subclass supplies; the model   *)
(* records when it is called and when it returns or raises.  The clock     *)
(* advances between any two steps of the thread.                           *)
(***************************************************************************)
(* A variant of the test of run that only asks whether fps was given. *)
Truthy_is_not_none(f) == f # None

Truthy(f) == f # None /\ f[1] # 0

(* run(fps): "if fps:" selects the loop. *)
Run ==
    \E f \in FpsArgs :
        /\ pc = "idle"
        /\ fps' = f
        /\ pc' = IF Truthy(f) THEN "limit_init" ELSE "nolimit_update"
        /\ UNCHANGED <<dvars, written, now, last_time, current_time, wake, calls, frame_start>>

(* _run_without_fps_limit: self.update() *)
NoLimitUpdateCall ==
    /\ pc = "nolimit_update"
    /\ calls.update_started < MaxFrames
    /\ calls' = [calls EXCEPT !.update_started = @ + 1]
    /\ pc' = "nolimit_in_update"
    /\ frame_start' = now
    /\ UNCHANGED <<dvars, written, fps, now, last_time, current_time, wake>>

NoLimitUpdateReturn ==
    /\ pc = "nolimit_in_update"
    /\ calls' = [calls EXCEPT !.update_returned = @ + 1]
    /\ pc' = "nolimit_render"
    /\ UNCHANGED <<dvars, written, fps, now, last_time, current_time, wake, frame_start>>

(* _run_without_fps_limit: self.display.render() *)
NoLimitRenderCall ==
    /\ pc = "nolimit_render"
    /\ calls' = [calls EXCEPT !.render_started = @ + 1]
    /\ pc' = "nolimit_in_render"
    /\ UNCHANGED <<dvars, written, fps, now, last_time, current_time, wake, frame_start>>

NoLimitRenderReturn ==
    /\ pc = "nolimit_in_render"
    /\ written' = render(display)
    /\ calls' = [calls EXCEPT !.render_returned = @ + 1]
    /\ pc' = "nolimit_update"
    /\ UNCHANGED <<dvars, fps, now, last_time, current_time, wake, frame_start>>

(* _run_with_fps_limit: last_time = time.time() before the loop *)
LimitInit ==
    /\ pc = "limit_init"
    /\ last_time' = now
    /\ pc' = "limit_top"
    /\ UNCHANGED <<dvars, written, fps, now, current_time, wake, calls, frame_start>>

(* A variant of the pacing test that sleeps for the elapsed time. *)
LimitMeasure_sleeps_elapsed ==
    /\ pc = "limit_top"
    /\ IF fps # None
       THEN LET elapsed_time == current_time' - last_time
            IN  /\ current_time' = now
                /\ IF elapsed_time < fps[1]
                   THEN /\ wake' = now + elapsed_time
                        /\ pc' = "limit_sleep"
                   ELSE /\ pc' = "limit_stamp"
                        /\ UNCHANGED wake
       ELSE /\ pc' = "limit_update"
            /\ UNCHANGED <<current_time, wake>>
    /\ UNCHANGED <<dvars, written, fps, now, last_time, calls, frame_start>>

(* A variant of the pacing test that always sleeps for the whole interval. *)
LimitMeasure_sleeps_interval ==
    /\ pc = "limit_top"
    /\ IF fps # None
       THEN LET elapsed_time == current_time' - last_time
            IN  /\ current_time' = now
                /\ IF elapsed_time < fps[1]
                   THEN /\ wake' = now + fps[1]
                        /\ pc' = "limit_sleep"
                   ELSE /\ pc' = "limit_stamp"
                        /\ UNCHANGED wake
       ELSE /\ pc' = "limit_update"
            /\ UNCHANGED <<current_time, wake>>
    /\ UNCHANGED <<dvars, written, fps, now, last_time, calls, frame_start>>

(* "if fps is not None": current_time = time.time(), elapsed_time, and the *)
(* test "elapsed_time < fps" with the call of time.sleep.                   *)
LimitMeasure ==
    /\ pc = "limit_top"
    /\ IF fps # None
       THEN LET elapsed_time == current_time' - last_time
            IN  /\ current_time' = now
                /\ IF elapsed_time < fps[1]
                   THEN /\ wake' = now + (fps[1] - elapsed_time)
                        /\ pc' = "limit_sleep"
                   ELSE /\ pc' = "limit_stamp"
                        /\ UNCHANGED wake
       ELSE /\ pc' = "limit_update"
            /\ UNCHANGED <<current_time, wake>>
    /\ UNCHANGED <<dvars, written, fps, now, last_time, calls, frame_start>>

(* time.sleep returns once the requested time has passed. *)
LimitSleepReturn ==
    /\ pc = "limit_sleep"
    /\ now >= wake
    /\ pc' = "limit_stamp"
    /\ UNCHANGED <<dvars, written, fps, now, last_time, current_time, wake, calls, frame_start>>

(* A variant of the stamp after which the loop starts over ("continue"). *)
LimitStamp_continues ==
    /\ pc = "limit_stamp"
    /\ last_time' = now
    /\ pc' = "limit_top"
    /\ UNCHANGED <<dvars, written, fps, now, current_time, wake, calls, frame_start>>

(* last_time = time.time() *)
LimitStamp ==
    /\ pc = "limit_stamp"
    /\ last_time' = now
    /\ pc' = "limit_update"
    /\ UNCHANGED <<dvars, written, fps, now, current_time, wake, calls, frame_start>>

(* _run_with_fps_limit: self.update() *)
LimitUpdateCall ==
    /\ pc = "limit_update"
    /\ calls.update_started < MaxFrames
    /\ calls' = [calls EXCEPT !.update_started = @ + 1]
    /\ pc' = "limit_in_update"
    /\ frame_start' = now
    /\ UNCHANGED <<dvars, written, fps, now, last_time, current_time, wake>>

(* A variant of the return from update() that goes back to the top of    *)
(* the loop without rendering.                                              *)
LimitUpdateReturn_skips_render ==
    /\ pc = "limit_in_update"
    /\ calls' = [calls EXCEPT !.update_returned = @ + 1]
    /\ pc' = "limit_top"
    /\ UNCHANGED <<dvars, written, fps, now, last_time, current_time, wake, frame_start>>

LimitUpdateReturn ==
    /\ pc = "limit_in_update"
    /\ calls' = [calls EXCEPT !.update_returned = @ + 1]
    /\ pc' = "limit_render"
    /\ UNCHANGED <<dvars, written, fps, now, last_time, current_time, wake, frame_start>>

(* _run_with_fps_limit: self.display.render() *)
LimitRenderCall ==
    /\ pc = "limit_render"
    /\ calls' = [calls EXCEPT !.render_started = @ + 1]
    /\ pc' = "limit_in_render"
    /\ UNCHANGED <<dvars, written, fps, now, last_time, current_time, wake, frame_start>>

LimitRenderReturn ==
    /\ pc = "limit_in_render"
    /\ written' = render(display)
    /\ calls' = [calls EXCEPT !.render_returned = @ + 1]
    /\ pc' = "limit_top"
    /\ UNCHANGED <<dvars, fps, now, last_time, current_time, wake, frame_start>>

(* A variant in which the exception ends the current loop only and run    *)
(* goes on with its next statement, the call of _run_without_fps_limit.     *)
UpdateRaise_falls_through ==
    /\ pc \in {"nolimit_in_update", "limit_in_update"}
    /\ pc' = "nolimit_update"
    /\ UNCHANGED <<dvars, written, fps, now, last_time, current_time, wake, calls, frame_start>>

(* update() raises: nothing in run catches it, the exception leaves run. *)
UpdateRaise ==
    /\ pc \in {"nolimit_in_update", "limit_in_update"}
    /\ pc' = "raised"
    /\ UNCHANGED <<dvars, written, fps, now, last_time, current_time, wake, calls, frame_start>>

(* The clock advances while the thread runs or sleeps. *)
Tick ==
    /\ pc \notin {"idle", "raised"}
    /\ now < MaxTime
    /\ now' = now + 1
    /\ UNCHANGED <<dvars, written, pc, fps, last_time, current_time, wake, calls, frame_start>>

EngineNext ==
    \/ Run
    \/ NoLimitUpdateCall
    \/ NoLimitUpdateReturn
    \/ NoLimitRenderCall
    \/ NoLimitRenderReturn
    \/ LimitInit
    \/ LimitMeasure
    \/ LimitSleepReturn
    \/ LimitStamp
    \/ LimitUpdateCall
    \/ LimitUpdateReturn
    \/ LimitRenderCall
    \/ LimitRenderReturn
    \/ UpdateRaise
    \/ Tick

EngineSpec == Init /\ [][EngineNext]_vars

(***************************************************************************)
(* The loop without end.  update() and render() return normally.  The      *)
(* call counters and the clock are kept relative to a moving origin, so     *)
(* that the endless run has finitely many states: the counters restart      *)
(* between two frames, and the clock origin moves while the thread sleeps   *)
(* (last_time and current_time are written again before they are read,      *)
(* only wake - now matters to the pending sleep).                           *)
(***************************************************************************)
ForgetCalls ==
    /\ calls.update_started = MaxFrames
    /\ calls.render_returned = MaxFrames
    /\ calls' = NoCalls
    /\ UNCHANGED <<dvars, written, pc, fps, now, last_time, current_time, wake, frame_start>>

Rebase ==
    /\ pc = "limit_sleep"
    /\ now = MaxTime
    /\ wake > now
    /\ now' = 0
    /\ wake' = wake - now
    /\ last_time' = 0
    /\ current_time' = 0
    /\ frame_start' = 0
    /\ UNCHANGED <<dvars, written, pc, fps, calls>>

(* The steps of the single thread that executes run. *)
Thread ==
    \/ NoLimitUpdateCall
    \/ NoLimitUpdateReturn
    \/ NoLimitRenderCall
    \/ NoLimitRenderReturn
    \/ LimitInit
    \/ LimitMeasure
    \/ LimitSleepReturn
    \/ LimitStamp
    \/ LimitUpdateCall
    \/ LimitUpdateReturn
    \/ LimitRenderCall
    \/ LimitRenderReturn

LiveNext ==
    \/ Run
    \/ Thread
    \/ Tick
    \/ ForgetCalls
    \/ Rebase

(* The thread keeps running, update() and render() return, time passes. *)
LiveSpec ==
    /\ Init
    /\ [][LiveNext]_vars
    /\ WF_vars(Thread)
    /\ WF_vars(Tick)
    /\ WF_vars(ForgetCalls)
    /\ WF_vars(Rebase)

(***************************************************************************)
(* Properties.  The helpers below restate grid positions and object forms  *)
(* directly from the arguments of a call, without the operators above.     *)
(***************************************************************************)
Cols == 0 .. (size_x - 1)

Rows == 0 .. (size_y - 1)

InGrid(x, y) == x \in Cols /\ y \in Rows

GlyphOf(symbol) == IF symbol = None THEN "#" ELSE symbol[1]

(* The form entries that land on column col, row row for origin (ox, oy). *)
Hits(form, ox, oy, col, row) ==
    {i \in DOMAIN form : ox + form[i][1] = col /\ oy + form[i][2] = row}

Highest(S) == CHOOSE m \in S : \A n \in S : n <= m

(* The form entries whose absolute coordinates are in the grid, in order. *)
InBoundEntries(form, ox, oy) ==
    SelectSeq(form, LAMBDA e : InGrid(ox + e[1], oy + e[2]))

(* The cells of the grid a list of Cell references points at, as <<x, y>>. *)
CellsOf(d, refs) == {<<d[refs[i][1]][refs[i][2]].x, d[refs[i][1]][refs[i][2]].y>> : i \in DOMAIN refs}

(* C1: every grid cell satisfies is_active == (symbol != " ") in every     *)
(* state reachable by activate_cell, deactivate_cell, draw_object,          *)
(* del_object and move_object calls, for any accepted symbol.               *)
C1_ActiveIffNotEmpty ==
    \A row \in Rows : \A col \in Cols :
        display[row][col].is_active = (display[row][col].symbol # EMPTY_CELL_SYMBOL)

(* C2: draw_object(obj, x, y) followed immediately by del_object(obj)      *)
(* leaves every cell the draw touched inactive with the empty glyph and     *)
(* obj.object_coordinates equal to None.                                    *)
C2_DrawThenDelRestores ==
    [][ (last.op = "draw_object" /\ last'.op = "del_object" /\ last'.obj = last.obj)
        => /\ last'.err = "none"
           /\ objs'[last.obj].object_coordinates = None
           /\ \A row \in Rows : \A col \in Cols :
                 Hits(objs[last.obj].object_form, last.x, last.y, col, row) # {}
                 => /\ display'[row][col].is_active = FALSE
                    /\ display'[row][col].symbol = " " ]_vars

C2_Witness ==
    /\ last.op = "del_object"
    /\ last.err = "none"
    /\ nops = 2
    /\ objs[last.obj].object_form = FormBent

(* C3: after draw_object(obj, ox, oy), obj.object_coordinates is exactly   *)
(* the sequence of grid cells at (ox+dx, oy+dy) for the form entries that   *)
(* are in bounds, in form order; its length is the number of such entries.  *)
C3_CoordinatesAreInBoundEntries ==
    last.op = "draw_object"
    => LET sel == InBoundEntries(objs[last.obj].object_form, last.x, last.y)
           oc == objs[last.obj].object_coordinates
       IN  /\ oc # None
           /\ Len(oc[1]) = Len(sel)
           /\ \A i \in 1 .. Len(sel) :
                 /\ oc[1][i] = <<last.y + sel[i][2], last.x + sel[i][1]>>
                 /\ display[oc[1][i][1]][oc[1][i][2]].x = last.x + sel[i][1]
                 /\ display[oc[1][i][1]][oc[1][i][2]].y = last.y + sel[i][2]

C3_Witness ==
    /\ last.op = "draw_object"
    /\ last.x = 0
    /\ last.y = 0
    /\ objs[last.obj].object_form = FormPartial
    /\ objs[last.obj].object_coordinates = Some(<< <<0, 0>> >>)
    /\ display[0][0].symbol = "A"

(* C4: draw_object changes the grid only at in-bounds target cells: each   *)
(* such cell ends active with the symbol of the last form entry that maps   *)
(* to it ('#' when that symbol is None); every other cell is unchanged.     *)
C4_DrawFrame ==
    [][ last'.op = "draw_object"
        => \A row \in Rows : \A col \in Cols :
              LET form == objs[last'.obj].object_form
                  hits == Hits(form, last'.x, last'.y, col, row)
              IN  IF hits # {}
                  THEN /\ display'[row][col].is_active = TRUE
                       /\ display'[row][col].symbol = GlyphOf(form[Highest(hits)][3])
                  ELSE display'[row][col] = display[row][col] ]_vars

C4_Witness ==
    /\ last.op = "draw_object"
    /\ last.x = 1
    /\ last.y = 0
    /\ objs[last.obj].object_form = FormBent
    /\ display[1][1].symbol = "#"
    /\ display[1][0].symbol = "A"
    /\ display[0][0].is_active
    /\ display[0][0].symbol = "A"

(* C5: move_object(obj, nx, ny) on a placed object yields the grid and the *)
(* object_coordinates of del_object(obj) followed by draw_object(obj, nx,   *)
(* ny): every in-bounds cell of the form at the new origin is active, and   *)
(* every cell of the old placement not covered by the new one is inactive   *)
(* with the empty glyph.                                                    *)
C5_MoveIsDelThenDraw ==
    [][ (last'.op = "move_object" /\ objs[last'.obj].object_coordinates # None)
        => LET obj == objs[last'.obj]
               old == CellsOf(display, obj.object_coordinates[1])
               deleted == del_object(display, obj)
               drawn == draw_object(deleted.display, deleted.engine_object, last'.x, last'.y)
           IN  /\ last'.err = "none"
               /\ display' = drawn.display
               /\ objs'[last'.obj] = drawn.engine_object
               /\ \A row \in Rows : \A col \in Cols :
                     LET hits == Hits(obj.object_form, last'.x, last'.y, col, row)
                     IN  /\ hits # {} => display'[row][col].is_active = TRUE
                         /\ (hits = {} /\ <<col, row>> \in old)
                            => /\ display'[row][col].is_active = FALSE
                               /\ display'[row][col].symbol = " " ]_vars

C5_Witness ==
    /\ last.op = "move_object"
    /\ last.err = "none"
    /\ last.x = 0
    /\ last.y = 0
    /\ objs[last.obj].object_form = FormBent
    /\ objs[last.obj].object_coordinates = Some(<< <<0, 0>>, <<1, 0>>, <<1, 0>> >>)
    /\ display[0][1].is_active = FALSE
    /\ display[1][1].is_active = FALSE

(* C6: for every (x, y) outside the grid, negative coordinates included,   *)
(* activate_cell and deactivate_cell raise no error and leave every grid    *)
(* cell unchanged, and check_cell_condition returns false without raising.  *)
C6_OutOfBoundsIsNoOp ==
    [][ (last'.op \in {"activate_cell", "deactivate_cell", "check_cell_condition"}
         /\ ~InGrid(last'.x, last'.y))
        => /\ last'.err = "none"
           /\ display' = display
           /\ last'.ret = FALSE
           /\ check_cell_condition(display', last'.x, last'.y) = FALSE ]_vars

C6_Witness ==
    /\ last.op = "activate_cell"
    /\ last.x < 0
    /\ last.y < 0
    /\ last.err = "none"
    /\ display = display_init

(* C7: for every in-bounds (x, y) and symbol s, after activate_cell(x, y,  *)
(* s) check_cell_condition(x, y) is true and the cell's symbol is s ('#'    *)
(* when s is None); a following deactivate_cell(x, y) makes it false and    *)
(* the symbol ' '; in both steps no other cell changes.                     *)
C7_ActivateThenDeactivate ==
    [][ /\ (last'.op = "activate_cell" /\ InGrid(last'.x, last'.y))
           => /\ check_cell_condition(display', last'.x, last'.y) = TRUE
              /\ display'[last'.y][last'.x].symbol = GlyphOf(last'.symbol)
              /\ \A row \in Rows : \A col \in Cols :
                    <<col, row>> # <<last'.x, last'.y>> => display'[row][col] = display[row][col]
        /\ (/\ last.op = "activate_cell"
            /\ last'.op = "deactivate_cell"
            /\ InGrid(last.x, last.y)
            /\ last'.x = last.x
            /\ last'.y = last.y)
           => /\ check_cell_condition(display', last'.x, last'.y) = FALSE
              /\ display'[last'.y][last'.x].symbol = " "
              /\ \A row \in Rows : \A col \in Cols :
                    <<col, row>> # <<last'.x, last'.y>> => display'[row][col] = display[row][col]
      ]_vars

C7_Witness ==
    /\ last.op = "activate_cell"
    /\ last.x = 1
    /\ last.y = 0
    /\ last.symbol = None
    /\ display[0][1].is_active
    /\ display[0][1].symbol = "#"
    /\ display[1][0].is_active

(* C8: del_object on an object whose object_coordinates is None fails with *)
(* an error, deactivates no cell and leaves object_coordinates None;        *)
(* move_object on such an object fails before drawing, the grid unchanged.  *)
C8_UnplacedObjectFails ==
    [][ (last'.op \in {"del_object", "move_object"}
         /\ objs[last'.obj].object_coordinates = None)
        => /\ last'.err # "none"
           /\ display' = display
           /\ objs'[last'.obj].object_coordinates = None ]_vars

C8_Witness ==
    /\ last.op = "move_object"
    /\ last.err = "TypeError"
    /\ InGrid(last.x, last.y)
    /\ objs[last.obj].object_coordinates = None
    /\ \E row \in Rows : \E col \in Cols : display[row][col].is_active

(* The frame of a grid as the claim describes it: line r is the            *)
(* concatenation of the symbols of row r in column order.                   *)
RECURSIVE LineOf(_, _, _)
LineOf(d, row, col) ==
    IF col \notin Cols THEN "" ELSE d[row][col].symbol \o LineOf(d, row, col + 1)

RECURSIVE LinesJoined(_, _)
LinesJoined(d, row) ==
    IF row \notin Rows THEN ""
    ELSE IF row + 1 \in Rows THEN (LineOf(d, row, 0) \o "\n") \o LinesJoined(d, row + 1)
    ELSE LineOf(d, row, 0)

(* C9: the frame render() writes after the home sequence consists of       *)
(* exactly size_y lines of size_x characters each, line r being the         *)
(* concatenation of the symbols of row r, and of nothing else (whether the  *)
(* last line is terminated by a line break or not).                         *)
C9_FrameIsExactlyTheRows ==
    last.op = "render"
    => /\ Len(written) = 2
       /\ written[1] = CURSOR_HOME
       /\ \/ written[2] = LinesJoined(display, 0)
          \/ written[2] = LinesJoined(display, 0) \o "\n"

(* C10: in Engine.run, update() and display.render() strictly alternate,   *)
(* starting with update(): update runs once per frame and returns before    *)
(* that frame's render starts, no render starts without an update since     *)
(* the previous render, and the two never overlap.                          *)
C10_UpdateRenderAlternate ==
    /\ calls.render_started <= calls.update_returned
    /\ calls.update_returned <= calls.update_started
    /\ calls.update_started <= calls.render_returned + 1
    /\ calls.render_returned <= calls.render_started
    /\ ~(calls.update_started > calls.update_returned
         /\ calls.render_started > calls.render_returned)
    /\ pc \in {"nolimit_in_update", "limit_in_update", "raised"}
       <=> calls.update_started > calls.update_returned
    /\ pc \in {"nolimit_in_render", "limit_in_render"}
       <=> calls.render_started > calls.render_returned

C10_Witness ==
    /\ pc = "limit_in_render"
    /\ calls.update_returned = 2
    /\ calls.render_returned = 1

InUpdate == {"nolimit_in_update", "limit_in_update"}

InRender == {"nolimit_in_render", "limit_in_render"}

PacedLoop == {"limit_init", "limit_top", "limit_sleep", "limit_stamp", "limit_update",
              "limit_in_update", "limit_render", "limit_in_render"}

UnpacedLoop == {"nolimit_update", "nolimit_in_update", "nolimit_render", "nolimit_in_render"}

(* C11 as stated: with a positive target interval T, the moments just      *)
(* before update() is called in two consecutive frames differ by at least   *)
(* T, whatever update() and render() take.                                  *)
C11_UpdateCallsAtLeastTApart ==
    [][ (pc = "limit_update" /\ pc' = "limit_in_update" /\ calls.update_started >= 1)
        => now - frame_start >= fps[1] ]_vars

(* C11 amended: the clock readings last_time = time.time() taken right     *)
(* before update() in two consecutive frames differ by at least T, and      *)
(* each update() call happens at or after the reading of its frame.         *)
C11_StampsAtLeastTApart ==
    [][ /\ (pc = "limit_stamp" /\ pc' = "limit_update" /\ calls.update_started >= 1)
           => last_time' - last_time >= fps[1]
        /\ (pc = "limit_update" /\ pc' = "limit_in_update")
           => frame_start' >= last_time ]_vars

C11_Witness ==
    /\ pc = "limit_in_update"
    /\ fps = Some(3)
    /\ calls.update_started = 2
    /\ last_time = 6
    /\ frame_start = 6

(* C12: each iteration of the paced loop computes elapsed = now - (start   *)
(* of the previous iteration); if elapsed < T it sleeps exactly T -         *)
(* elapsed, otherwise it does not sleep and goes on to update(); every      *)
(* requested sleep duration lies in (0, T].                                 *)
C12_SleepIsRemainder ==
    [][ (pc = "limit_top" /\ pc' # "limit_top")
        => LET elapsed == now - last_time
               requested == wake' - now
           IN  IF elapsed < fps[1]
               THEN /\ pc' = "limit_sleep"
                    /\ requested = fps[1] - elapsed
                    /\ requested > 0
                    /\ requested <= fps[1]
               ELSE /\ pc' = "limit_stamp"
                    /\ wake' = wake ]_vars

C12_Witness ==
    /\ pc = "limit_sleep"
    /\ fps = Some(3)
    /\ calls.render_returned = 1
    /\ wake - current_time = 1

(* C13: run() called with no interval, None or 0 takes the unpaced loop    *)
(* and never sleeps; the paced loop is entered only for a truthy interval.  *)
C13_FalsyIntervalIsUnpaced ==
    /\ (pc # "idle" /\ (fps = None \/ fps = Some(0)))
       => /\ pc \in UnpacedLoop \cup {"raised"}
          /\ wake = 0
    /\ pc \in PacedLoop => (fps # None /\ fps[1] # 0)

C13_Witness ==
    /\ fps = Some(0)
    /\ pc = "nolimit_in_render"
    /\ calls.render_returned = 1
    /\ now > 0

(* C14: if update() raises, the error leaves run(): render() is not called *)
(* for that frame and no further update() or render() call happens; in      *)
(* particular the paced loop does not fall through to the unpaced loop.     *)
C14_RaiseEndsRun ==
    [][ /\ (pc \in InUpdate /\ pc' \notin InUpdate)
           => \/ /\ pc' \in {"nolimit_render", "limit_render"}
                 /\ calls'.update_returned = calls.update_returned + 1
              \/ /\ pc' = "raised"
                 /\ calls' = calls
                 /\ calls.render_started = calls.update_started - 1
                 /\ calls.render_returned = calls.render_started
        /\ pc = "raised" => (pc' = "raised" /\ calls' = calls /\ written' = written) ]_vars

C14_Witness ==
    /\ pc = "raised"
    /\ fps = Some(2)
    /\ calls.update_started = 2
    /\ calls.render_returned = 1

(* C15: once run() has been called the engine stays in its loop as long as *)
(* update() and render() return normally: run() never returns, and from     *)
(* any point of either loop, in particular after every completed render,    *)
(* update() is eventually called again, and after it render().              *)
C15_LoopNeverEnds ==
    /\ [](pc # "idle" => pc \in PacedLoop \cup UnpacedLoop)
    /\ (pc \in PacedLoop \cup UnpacedLoop) ~> (pc \in InUpdate)
    /\ (pc \in InRender) ~> (pc \in InUpdate)
    /\ (pc \in InUpdate) ~> (pc \in InRender)

C15_Witness ==
    /\ pc = "limit_in_update"
    /\ fps = Some(2)
    /\ calls.render_returned = 2
    /\ calls.update_started = 3

(* C16: deactivate_cell(x, y) twice gives the grid of deactivate_cell once; *)
(* activate_cell(x, y, s) on an already active cell leaves it active with   *)
(* symbol s and changes nothing else, so activate_cell twice equals once.   *)
C16_SingleCellCallsIdempotent ==
    [][ /\ (/\ last.op = "deactivate_cell"
            /\ last'.op = "deactivate_cell"
            /\ last'.x = last.x
            /\ last'.y = last.y)
           => display' = display
        /\ (/\ last.op = "activate_cell"
            /\ last'.op = "activate_cell"
            /\ last'.x = last.x
            /\ last'.y = last.y
            /\ last'.symbol = last.symbol)
           => display' = display
        /\ (/\ last'.op = "activate_cell"
            /\ InGrid(last'.x, last'.y)
            /\ display[last'.y][last'.x].is_active)
           => /\ display'[last'.y][last'.x].is_active = TRUE
              /\ display'[last'.y][last'.x].symbol = GlyphOf(last'.symbol)
              /\ \A row \in Rows : \A col \in Cols :
                    <<col, row>> # <<last'.x, last'.y>> => display'[row][col] = display[row][col]
      ]_vars

C16_Witness ==
    /\ last.op = "activate_cell"
    /\ nops = 2
    /\ last.x = 0
    /\ last.y = 0
    /\ last.symbol = Some("A")
    /\ display[0][0].is_active
    /\ display[0][0].symbol = "A"
    /\ \A row \in Rows : \A col \in Cols :
          <<col, row>> # <<0, 0>> => ~display[row][col].is_active

(* C17: with two or more objects drawn, removed and moved from an empty    *)
(* grid (removed or moved only while placed, placements may overlap),       *)
(* every cell recorded in the object_coordinates of a placed object is      *)
(* active.                                                                  *)
C17_RecordedCellsAreActive ==
    Cardinality(DOMAIN objs) >= 2
    => \A o \in DOMAIN objs :
          objs[o].object_coordinates # None
          => \A i \in DOMAIN objs[o].object_coordinates[1] :
                display[objs[o].object_coordinates[1][i][1]]
                       [objs[o].object_coordinates[1][i][2]].is_active

(* C18: with one object drawn, removed and moved from an empty grid        *)
(* (removed or moved only while placed, drawn also while placed), every     *)
(* cell is inactive whenever object_coordinates is None, and otherwise the  *)
(* active cells are exactly the cells in object_coordinates.                *)
C18_NoLeakedCells ==
    DOMAIN objs = {"o1"}
    => LET oc == objs["o1"].object_coordinates
           active == {<<col, row>> \in Cols \X Rows : display[row][col].is_active}
       IN  IF oc = None
           THEN active = {}
           ELSE active = CellsOf(display, oc[1])
====
